---- MODULE Spec2Model ----
(***************************************************************************)
(* A model of scripts/run_fcst.py: the key-path walk (_walk_key_path), the *)
(* symbolic-link publisher (link_files) and the run sequence (run_fcst and *)
(* the script's __main__ block).                                           *)
(***************************************************************************)
EXTENDS Naturals, Sequences, FiniteSets, TLC

\* ------------------------------------------------------------------------
\* Bounds of the model
\* ------------------------------------------------------------------------

\* Most key/value entries, counted over all nesting levels, of the
\* configuration trees drawn as inputs.
MaxEntries == 3

\* Longest key path drawn as input.
MaxPathLen == 3

\* Most source files passed to link_files in one call.
MaxFiles == 2

\* ------------------------------------------------------------------------
\* Configuration trees (the dict get_yaml_config returns, and its values)
\* ------------------------------------------------------------------------

Keys == {"workflow", "FIXlam"}

\* Keys a caller may put in a key path: those of the trees and one that no
\* tree holds.
PathKeys == Keys \cup {"missing"}

\* Python's None.
NoneVal == [kind |-> "None"]

\* Values that are not dictionaries: a scalar (a string) and a sequence.
ScalarVal == [kind |-> "scalar"]

SeqVal == [kind |-> "sequence"]

NonDicts == {ScalarVal, SeqVal}

\* A dictionary with the given items (a function from its keys to values).
Dict(items) == [kind |-> "dict", items |-> items]

\* isinstance(v, dict)
IsDict(v) == v.kind = "dict"

\* key in config
HasKey(config, key) == key \in DOMAIN config.items

\* config[key], for a key the dictionary holds
GetItem(config, key) == config.items[key]

\* The configuration of the end-to-end scenarios: {"workflow": {"FIXlam": "/out"}}
ScenarioConfig ==
    Dict([k \in {"workflow"} |-> Dict([j \in {"FIXlam"} |-> ScalarVal])])

\* The number of key/value entries of a value, over all nesting levels.
RECURSIVE Entries(_)
Entries(v) ==
    LET RECURSIVE Sum(_)
        Sum(ks) == IF ks = {} THEN 0
                   ELSE LET k == CHOOSE x \in ks : TRUE
                        IN  1 + Entries(v.items[k]) + Sum(ks \ {k})
    IN  IF IsDict(v) THEN Sum(DOMAIN v.items) ELSE 0

\* All values with at most n entries.
RECURSIVE Values(_)
Values(n) ==
    IF n = 0
    THEN NonDicts \cup {Dict(<<>>)}
    ELSE LET sub == Values(n - 1)
             dicts == UNION {{Dict(f) : f \in [ks -> sub]} : ks \in SUBSET Keys}
         IN  NonDicts \cup {d \in dicts : Entries(d) <= n}

\* The configuration trees: dictionaries at the root.
ConfigTrees == {v \in Values(MaxEntries) : IsDict(v)}

\* Sequences over S of length at most n.
SeqsUpTo(S, n) == UNION {[1..k -> S] : k \in 0..n}

KeyPaths == SeqsUpTo(PathKeys, MaxPathLen)

\* sep.join(keys)
RECURSIVE Join(_, _)
Join(sep, strs) ==
    IF Len(strs) = 0 THEN ""
    ELSE IF Len(strs) = 1 THEN strs[1]
    ELSE strs[1] \o sep \o Join(sep, Tail(strs))

\* ------------------------------------------------------------------------
\* Paths and the destination directory
\* ------------------------------------------------------------------------

\* Directories source files lie in: the run directory, and the run directory
\* of an earlier run, since removed.
SrcDirs == {"/run", "/old"}

FileNames == {"data.nc", "grid.nc"}

\* A path is its directory and its final component.
SrcPaths == [dir : SrcDirs, name : FileNames]

\* Path(fpath).name
Basename(path) == path.name

\* Names an entry of the destination directory may have: those of the
\* source files and one of no source file.
DestNames == FileNames \cup {"notes.txt"}

\* What a name of the destination directory holds.
Absent == [kind |-> "absent"]

RegularFile == [kind |-> "file"]

Directory == [kind |-> "dir"]

Symlink(target) == [kind |-> "symlink", target |-> target]

DirEntries == {Absent, RegularFile, Directory} \cup {Symlink(t) : t \in SrcPaths}

\* The callers of link_files: one for the sequential runs, a second for
\* concurrent ones.
LinkProcs == {1, 2}

Caller == 1

\* ------------------------------------------------------------------------
\* State
\* ------------------------------------------------------------------------

VARIABLES
    walk_root,      \* the config argument _walk_key_path was called with
    key_path,       \* its key_path argument
    walk_pc,        \* "idle", "loop", "returned", "raised", "exited"
    config,         \* the local config, rebound at line 50
    keys,           \* the local keys
    pathstr,        \* the local pathstr
    walk_ret,       \* the value returned (NoneVal before and on failure)
    walk_exc,       \* the exception that left the function ("" if none)
    walk_log,       \* the messages passed to logging.error, in order
    walk_lookups    \* the keys looked up by config[key], in order

VARIABLES
    dest_exists,    \* whether dest_dir is an existing directory
    dest,           \* the entries of dest_dir, by name
    link_pc,        \* per caller: "idle", "is_symlink", "unlink",
                    \* "symlink_to", "returned", "raised"
    files,          \* per caller: the files argument
    link_i,         \* per caller: the index of fpath in files
    link_exc,       \* per caller: the exception that left link_files
    link_calls,     \* per caller: calls made with these arguments
    dest_at_call,   \* per caller: dest when the first call was made
    dest_after_first \* per caller: dest when the first call returned

walk_vars == <<walk_root, key_path, walk_pc, config, keys, pathstr,
               walk_ret, walk_exc, walk_log, walk_lookups>>

link_vars == <<dest_exists, dest, link_pc, files, link_i, link_exc,
               link_calls, dest_at_call, dest_after_first>>

VARIABLES
    entry,          \* "script": python run_fcst.py ARGS (the __main__ block);
                    \* "import": a caller imports the module and calls
                    \* run_fcst(...)
    argv,           \* the command line: "ok", "missing_flag" or "bad_cycle"
    member,         \* the member argument
    config_file,    \* what get_yaml_config(config_file) yields: a tree, or
                    \* Unloadable when it raises
    driver,         \* the FV3 driver: "ok", "ctor_raises" (FV3(...) raises)
                    \* or "no_rundir" (its config has no rundir)
    run_raises,     \* whether fv3_driver.run() raises
    run_writes,     \* the files fv3_driver.run() leaves in the run directory
    run_pc,         \* the line about to be executed, or "exited"
    environ_MEMBER, \* os.environ["MEMBER"] ("" when unset)
    expt_config,    \* the local expt_config (NoneVal before line 93)
    run_calls,      \* calls of fv3_driver.run() made
    run_returned,   \* whether fv3_driver.run() has returned
    rundir,         \* the names of the regular files of the run directory
    fix_lam_path,   \* the local fix_lam_path ("" before line 114)
    run_exc,        \* the exception that ended the process ("" if none)
    exit_status     \* the process exit status, once run_pc = "exited"

run_vars == <<entry, argv, member, config_file, driver, run_raises,
              run_writes, run_pc, environ_MEMBER, expt_config, run_calls,
              run_returned, rundir, fix_lam_path, run_exc, exit_status>>

vars == <<walk_vars, link_vars, run_vars>>

\* ------------------------------------------------------------------------
\* _walk_key_path
\* ------------------------------------------------------------------------

WalkInputs(trees, paths) ==
    /\ walk_root \in trees
    /\ key_path \in paths
    /\ walk_pc = "idle"
    /\ config = NoneVal
    /\ keys = <<>>
    /\ pathstr = ""
    /\ walk_ret = NoneVal
    /\ walk_exc = ""
    /\ walk_log = <<>>
    /\ walk_lookups = <<>>

WalkInit == WalkInputs(ConfigTrees, KeyPaths)

\* _walk_key_path is not called.
WalkIdle == WalkInputs({Dict(<<>>)}, {<<>>})

\* The call and lines 37-38.
WalkCall ==
    /\ walk_pc = "idle"
    /\ config' = walk_root
    /\ keys' = <<>>
    /\ pathstr' = "<unknown>"
    /\ walk_pc' = "loop"
    /\ UNCHANGED <<walk_root, key_path, walk_ret, walk_exc, walk_log,
                   walk_lookups>>
    /\ UNCHANGED <<link_vars, run_vars>>

\* Line 41: the trail of the keys walked so far.
PathStrDotted(ks) == Join(".", ks)

PathStr(ks) == Join(" -> ", ks)

\* Line 47: whether the value found is refused.
NotADictNever(subconfig) == FALSE

NotADict(subconfig) == ~IsDict(subconfig)

\* One iteration of the loop, lines 39-50.  config[key] raises TypeError on
\* a scalar or a sequence indexed by a string, and KeyError on a dictionary
\* without the key; only KeyError is caught, logged and raised again.
WalkIter ==
    /\ walk_pc = "loop"
    /\ Len(keys) < Len(key_path)
    /\ LET key == key_path[Len(keys) + 1]
           ks == Append(keys, key)
           ps == PathStr(ks)
       IN  /\ keys' = ks
           /\ pathstr' = ps
           /\ walk_lookups' = Append(walk_lookups, key)
           /\ IF ~IsDict(config)
              THEN /\ walk_exc' = "TypeError"
                   /\ walk_pc' = "raised"
                   /\ UNCHANGED <<config, walk_log>>
              ELSE IF ~HasKey(config, key)
              THEN /\ walk_log' = Append(walk_log, "Bad config path: " \o ps)
                   /\ walk_exc' = "KeyError"
                   /\ walk_pc' = "raised"
                   /\ UNCHANGED config
              ELSE IF NotADict(GetItem(config, key))
              THEN /\ walk_log' = Append(walk_log,
                           "Value at " \o ps \o " must be a dictionary")
                   /\ walk_exc' = "SystemExit(1)"
                   /\ walk_pc' = "exited"
                   /\ UNCHANGED config
              ELSE /\ config' = GetItem(config, key)
                   /\ UNCHANGED <<walk_log, walk_exc, walk_pc>>
    /\ UNCHANGED <<walk_root, key_path, walk_ret>>
    /\ UNCHANGED <<link_vars, run_vars>>

\* Variants of line 51: returning the argument as it was passed in, and
\* returning the loop's subconfig, which is unbound when the loop never ran.
WalkReturnRoot ==
    /\ walk_pc = "loop"
    /\ Len(keys) = Len(key_path)
    /\ walk_ret' = walk_root
    /\ walk_pc' = "returned"
    /\ UNCHANGED <<walk_root, key_path, config, keys, pathstr, walk_exc,
                   walk_log, walk_lookups>>
    /\ UNCHANGED <<link_vars, run_vars>>

WalkReturnSubconfig ==
    /\ walk_pc = "loop"
    /\ Len(keys) = Len(key_path)
    /\ IF keys = <<>>
       THEN /\ walk_exc' = "UnboundLocalError"
            /\ walk_pc' = "raised"
            /\ UNCHANGED walk_ret
       ELSE /\ walk_ret' = config
            /\ walk_pc' = "returned"
            /\ UNCHANGED walk_exc
    /\ UNCHANGED <<walk_root, key_path, config, keys, pathstr, walk_log,
                   walk_lookups>>
    /\ UNCHANGED <<link_vars, run_vars>>

\* Line 51, once the loop has run out of keys.
WalkReturn ==
    /\ walk_pc = "loop"
    /\ Len(keys) = Len(key_path)
    /\ walk_ret' = config
    /\ walk_pc' = "returned"
    /\ UNCHANGED <<walk_root, key_path, config, keys, pathstr, walk_exc,
                   walk_log, walk_lookups>>
    /\ UNCHANGED <<link_vars, run_vars>>

WalkNext == WalkCall \/ WalkIter \/ WalkReturn

\* ------------------------------------------------------------------------
\* link_files
\* ------------------------------------------------------------------------

\* The destination directories a call may find: a missing one holds nothing.
DestStates ==
    {<<TRUE, d>> : d \in [DestNames -> DirEntries]}
        \cup {<<FALSE, [n \in DestNames |-> Absent]>>}

LinkInputs(dests, calls) ==
    /\ \E ds \in dests : dest_exists = ds[1] /\ dest = ds[2]
    /\ files \in calls
    /\ link_pc = [p \in LinkProcs |-> "idle"]
    /\ link_i = [p \in LinkProcs |-> 0]
    /\ link_exc = [p \in LinkProcs |-> ""]
    /\ link_calls = [p \in LinkProcs |-> 0]
    /\ dest_at_call = [p \in LinkProcs |-> dest]
    /\ dest_after_first = [p \in LinkProcs |-> dest]

\* One caller, any destination directory, any sequence of source files.
LinkInit ==
    LinkInputs(DestStates,
               {[p \in LinkProcs |-> IF p = Caller THEN fs ELSE <<>>] :
                    fs \in SeqsUpTo(SrcPaths, MaxFiles)})

\* link_files is not called.
LinkIdle ==
    LinkInputs({<<TRUE, [n \in DestNames |-> Absent]>>},
               {[p \in LinkProcs |-> <<>>]})

\* Line 28, Path.is_symlink(): lstat() says the name is a symbolic link;
\* False when the name or its directory does not exist.
IsSymlinkNever(e) == FALSE

IsSymlinkExists(e) == e.kind # "absent"

IsSymlink(e) == e.kind = "symlink"

\* Line 31: the target written into the link.
SymlinkTargetName(path) == [dir |-> "", name |-> Basename(path)]

SymlinkTarget(path) == path

\* The call with the destination directory cleared of its links first.
LinkCallClean(p) ==
    /\ link_pc[p] = "idle"
    /\ link_pc' = [link_pc EXCEPT ![p] = "is_symlink"]
    /\ link_i' = [link_i EXCEPT ![p] = 1]
    /\ link_calls' = [link_calls EXCEPT ![p] = 1]
    /\ dest_at_call' = [dest_at_call EXCEPT ![p] = dest]
    /\ dest' = [n \in DestNames |->
                   IF dest[n].kind = "symlink" THEN Absent ELSE dest[n]]
    /\ UNCHANGED <<dest_exists, files, link_exc, dest_after_first>>
    /\ UNCHANGED <<walk_vars, run_vars>>

\* The call of link_files(dest_dir, files): the loop starts at files[1].
LinkCall(p) ==
    /\ link_pc[p] = "idle"
    /\ link_pc' = [link_pc EXCEPT ![p] = "is_symlink"]
    /\ link_i' = [link_i EXCEPT ![p] = 1]
    /\ link_calls' = [link_calls EXCEPT ![p] = 1]
    /\ dest_at_call' = [dest_at_call EXCEPT ![p] = dest]
    /\ UNCHANGED <<dest_exists, dest, files, link_exc, dest_after_first>>
    /\ UNCHANGED <<walk_vars, run_vars>>

\* Lines 25-28: the next fpath, linkname = dest_dir / path.name and the
\* test linkname.is_symlink().
LinkIsSymlink(p) ==
    /\ link_pc[p] = "is_symlink"
    /\ link_i[p] <= Len(files[p])
    /\ LET linkname == Basename(files[p][link_i[p]])
       IN  link_pc' = [link_pc EXCEPT ![p] =
                          IF dest_exists /\ IsSymlink(dest[linkname])
                          THEN "unlink" ELSE "symlink_to"]
    /\ UNCHANGED <<dest_exists, dest, files, link_i, link_exc, link_calls,
                   dest_at_call, dest_after_first>>
    /\ UNCHANGED <<walk_vars, run_vars>>

\* Line 29 removing every link of the destination directory, not only the
\* one under linkname.
LinkUnlinkAll(p) ==
    /\ link_pc[p] = "unlink"
    /\ dest' = [n \in DestNames |->
                   IF dest[n].kind = "symlink" THEN Absent ELSE dest[n]]
    /\ link_pc' = [link_pc EXCEPT ![p] = "symlink_to"]
    /\ UNCHANGED <<dest_exists, files, link_i, link_exc, link_calls,
                   dest_at_call, dest_after_first>>
    /\ UNCHANGED <<walk_vars, run_vars>>

\* Line 29 leaving the old link in place.
LinkUnlinkKeep(p) ==
    /\ link_pc[p] = "unlink"
    /\ link_pc' = [link_pc EXCEPT ![p] = "symlink_to"]
    /\ UNCHANGED <<dest_exists, dest, files, link_i, link_exc, link_calls,
                   dest_at_call, dest_after_first>>
    /\ UNCHANGED <<walk_vars, run_vars>>

\* Line 29, linkname.unlink(): removes the name, whatever but a directory it
\* holds by now; fails when nothing or a directory is there.
LinkUnlink(p) ==
    /\ link_pc[p] = "unlink"
    /\ LET linkname == Basename(files[p][link_i[p]])
       IN  IF ~dest_exists \/ dest[linkname] = Absent
           THEN /\ link_exc' = [link_exc EXCEPT ![p] = "FileNotFoundError"]
                /\ link_pc' = [link_pc EXCEPT ![p] = "raised"]
                /\ UNCHANGED dest
           ELSE IF dest[linkname] = Directory
           THEN /\ link_exc' = [link_exc EXCEPT ![p] = "IsADirectoryError"]
                /\ link_pc' = [link_pc EXCEPT ![p] = "raised"]
                /\ UNCHANGED dest
           ELSE /\ dest' = [dest EXCEPT ![linkname] = Absent]
                /\ link_pc' = [link_pc EXCEPT ![p] = "symlink_to"]
                /\ UNCHANGED link_exc
    /\ UNCHANGED <<dest_exists, files, link_i, link_calls, dest_at_call,
                   dest_after_first>>
    /\ UNCHANGED <<walk_vars, run_vars>>

\* Lines 30-31 with the error of a taken name swallowed: the source is
\* skipped and the loop goes on.
LinkSymlinkToSkip(p) ==
    /\ link_pc[p] = "symlink_to"
    /\ LET path == files[p][link_i[p]]
           linkname == Basename(path)
       IN  IF ~dest_exists
           THEN /\ link_exc' = [link_exc EXCEPT ![p] = "FileNotFoundError"]
                /\ link_pc' = [link_pc EXCEPT ![p] = "raised"]
                /\ UNCHANGED <<dest, link_i>>
           ELSE /\ dest' = IF dest[linkname] # Absent THEN dest
                           ELSE [dest EXCEPT ![linkname] = Symlink(SymlinkTarget(path))]
                /\ link_i' = [link_i EXCEPT ![p] = link_i[p] + 1]
                /\ link_pc' = [link_pc EXCEPT ![p] = "is_symlink"]
                /\ UNCHANGED link_exc
    /\ UNCHANGED <<dest_exists, files, link_calls, dest_at_call,
                   dest_after_first>>
    /\ UNCHANGED <<walk_vars, run_vars>>

\* Lines 30-31 with the parents made first, as by mkdir(parents=True): the
\* link is created in a destination directory that did not exist.
LinkSymlinkToMkdir(p) ==
    /\ link_pc[p] = "symlink_to"
    /\ LET path == files[p][link_i[p]]
           linkname == Basename(path)
       IN  IF dest_exists /\ dest[linkname] # Absent
           THEN /\ link_exc' = [link_exc EXCEPT ![p] = "FileExistsError"]
                /\ link_pc' = [link_pc EXCEPT ![p] = "raised"]
                /\ UNCHANGED <<dest, link_i, dest_exists>>
           ELSE /\ dest' = [dest EXCEPT ![linkname] = Symlink(SymlinkTarget(path))]
                /\ dest_exists' = TRUE
                /\ link_i' = [link_i EXCEPT ![p] = link_i[p] + 1]
                /\ link_pc' = [link_pc EXCEPT ![p] = "is_symlink"]
                /\ UNCHANGED link_exc
    /\ UNCHANGED <<files, link_calls, dest_at_call, dest_after_first>>
    /\ UNCHANGED <<walk_vars, run_vars>>

\* Lines 30-31, linkname.symlink_to(path): fails when dest_dir does not exist
\* or the name is taken; else creates the link and the loop goes on.
LinkSymlinkTo(p) ==
    /\ link_pc[p] = "symlink_to"
    /\ LET path == files[p][link_i[p]]
           linkname == Basename(path)
       IN  IF ~dest_exists
           THEN /\ link_exc' = [link_exc EXCEPT ![p] = "FileNotFoundError"]
                /\ link_pc' = [link_pc EXCEPT ![p] = "raised"]
                /\ UNCHANGED <<dest, link_i>>
           ELSE IF dest[linkname] # Absent
           THEN /\ link_exc' = [link_exc EXCEPT ![p] = "FileExistsError"]
                /\ link_pc' = [link_pc EXCEPT ![p] = "raised"]
                /\ UNCHANGED <<dest, link_i>>
           ELSE /\ dest' = [dest EXCEPT ![linkname] = Symlink(SymlinkTarget(path))]
                /\ link_i' = [link_i EXCEPT ![p] = link_i[p] + 1]
                /\ link_pc' = [link_pc EXCEPT ![p] = "is_symlink"]
                /\ UNCHANGED link_exc
    /\ UNCHANGED <<dest_exists, files, link_calls, dest_at_call,
                   dest_after_first>>
    /\ UNCHANGED <<walk_vars, run_vars>>

\* The loop has run out of files: link_files returns None.
LinkReturn(p) ==
    /\ link_pc[p] = "is_symlink"
    /\ link_i[p] > Len(files[p])
    /\ link_pc' = [link_pc EXCEPT ![p] = "returned"]
    /\ dest_after_first' =
           IF link_calls[p] = 1
           THEN [dest_after_first EXCEPT ![p] = dest]
           ELSE dest_after_first
    /\ UNCHANGED <<dest_exists, dest, files, link_i, link_exc, link_calls,
                   dest_at_call>>
    /\ UNCHANGED <<walk_vars, run_vars>>

\* The caller calls link_files a second time, right after the first call
\* returned, with the same arguments.
LinkCallAgain(p) ==
    /\ link_pc[p] = "returned"
    /\ link_calls[p] = 1
    /\ link_pc' = [link_pc EXCEPT ![p] = "is_symlink"]
    /\ link_i' = [link_i EXCEPT ![p] = 1]
    /\ link_calls' = [link_calls EXCEPT ![p] = 2]
    /\ UNCHANGED <<dest_exists, dest, files, link_exc, dest_at_call,
                   dest_after_first>>
    /\ UNCHANGED <<walk_vars, run_vars>>

LinkStep(p) ==
    \/ LinkCall(p)
    \/ LinkIsSymlink(p)
    \/ LinkUnlink(p)
    \/ LinkSymlinkTo(p)
    \/ LinkReturn(p)
    \/ LinkCallAgain(p)

LinkNext == LinkStep(Caller)

\* ------------------------------------------------------------------------
\* run_fcst and the __main__ block
\* ------------------------------------------------------------------------

\* The names bound in the module's namespace: the imports of lines 6-18 and
\* the functions defined at lines 21, 33, 53 and 89.
ModuleNames ==
    {"dt", "logging", "os", "re", "sys", "ArgumentParser", "deepcopy",
     "Path", "uwlink", "use_uwtools_logger", "FV3", "get_yaml_config",
     "link_files", "_walk_key_path", "parse_args", "run_fcst"}

\* Line 109: the driver's completion marker.
DriverMarker == "runscript.fv3.done"

\* Line 123: this script's completion marker.
TaskMarker == "run_fcst_task_complete.txt"

\* What get_yaml_config yields for a file it cannot load.
Unloadable == [kind |-> "unloadable"]

\* The experiment configurations drawn: the scenario's, and ones in which
\* workflow or FIXlam is missing or of another type.
ExptConfigs ==
    {ScenarioConfig,
     Dict(<<>>),
     Dict([k \in {"workflow"} |-> ScalarVal]),
     Dict([k \in {"workflow"} |-> Dict(<<>>)]),
     Dict([k \in {"workflow"} |-> Dict([j \in {"FIXlam"} |-> SeqVal])]),
     Dict([k \in {"workflow"} |-> Dict([j \in {"FIXlam"} |-> Dict(<<>>)])])}

\* The run directory before the run: empty, or with files of an earlier run.
RunDirsBefore == SUBSET {DriverMarker, "data.nc"}

\* What the driver's run may leave in the run directory.
RunWrites == SUBSET ({DriverMarker} \cup FileNames)

\* The destination directories of the runs: missing, empty, or holding a
\* link of an earlier run.
RunDests ==
    {ds \in DestStates :
        /\ ds[2]["notes.txt"] = Absent
        /\ ds[2]["grid.nc"] = Absent
        /\ ds[2]["data.nc"] \in
               {Absent, Symlink([dir |-> "/old", name |-> "data.nc"])}}

RunInputs(entries, argvs, members, configs, drivers, raises, writes, before) ==
    /\ entry \in entries
    /\ argv \in argvs
    /\ member \in members
    /\ config_file \in configs
    /\ driver \in drivers
    /\ run_raises \in raises
    /\ run_writes \in writes
    /\ rundir \in before
    /\ run_pc = IF entry = "script" THEN "L128" ELSE "L93"
    /\ environ_MEMBER = ""
    /\ expt_config = NoneVal
    /\ run_calls = 0
    /\ run_returned = FALSE
    /\ fix_lam_path = ""
    /\ run_exc = ""
    /\ exit_status = 0

RunInit ==
    RunInputs({"script", "import"}, {"ok", "missing_flag", "bad_cycle"},
              {"000", "001"}, ExptConfigs \cup {Unloadable},
              {"ok", "ctor_raises", "no_rundir"}, BOOLEAN, RunWrites,
              RunDirsBefore)

\* The script is not run.
RunIdle ==
    /\ RunInputs({"import"}, {"ok"}, {"000"}, {ScenarioConfig}, {"ok"},
                 {FALSE}, {{}}, {{}})

\* An exception nothing catches ends the process: the interpreter prints the
\* traceback and exits with status 1; SystemExit(n) exits with status n.
Die(exc, status) ==
    /\ run_pc' = "exited"
    /\ run_exc' = exc
    /\ exit_status' = status

\* Line 128.
UseLogger ==
    /\ run_pc = "L128"
    /\ run_pc' = "L130"
    /\ UNCHANGED <<entry, argv, member, config_file, driver, run_raises,
                   run_writes, environ_MEMBER, expt_config, run_calls,
                   run_returned, rundir, fix_lam_path, run_exc, exit_status>>
    /\ UNCHANGED <<walk_vars, link_vars>>

\* Line 130 with a parser that accepts every command line.
ParseArgsLenient ==
    /\ run_pc = "L130"
    /\ run_pc' = "L131"
    /\ UNCHANGED <<run_exc, exit_status>>
    /\ UNCHANGED <<entry, argv, member, config_file, driver, run_raises,
                   run_writes, environ_MEMBER, expt_config, run_calls,
                   run_returned, rundir, fix_lam_path>>
    /\ UNCHANGED <<walk_vars, link_vars>>

\* Line 130, parse_args (lines 53-86): argparse ends the process with
\* status 2 on a missing required flag or a cycle fromisoformat refuses.
ParseArgs ==
    /\ run_pc = "L130"
    /\ IF argv = "ok"
       THEN /\ run_pc' = "L131"
            /\ UNCHANGED <<run_exc, exit_status>>
       ELSE Die("SystemExit(2)", 2)
    /\ UNCHANGED <<entry, argv, member, config_file, driver, run_raises,
                   run_writes, environ_MEMBER, expt_config, run_calls,
                   run_returned, rundir, fix_lam_path>>
    /\ UNCHANGED <<walk_vars, link_vars>>

\* Line 131: the call run_fv3(...); run_fv3 is not a name of the module.
CallRunFv3 ==
    /\ run_pc = "L131"
    /\ IF "run_fv3" \in ModuleNames
       THEN /\ run_pc' = "L93"
            /\ UNCHANGED <<run_exc, exit_status>>
       ELSE Die("NameError: run_fv3", 1)
    /\ UNCHANGED <<entry, argv, member, config_file, driver, run_raises,
                   run_writes, environ_MEMBER, expt_config, run_calls,
                   run_returned, rundir, fix_lam_path>>
    /\ UNCHANGED <<walk_vars, link_vars>>

\* Line 93.
LoadConfig ==
    /\ run_pc = "L93"
    /\ IF config_file = Unloadable
       THEN /\ Die("UWConfigError", 1)
            /\ UNCHANGED expt_config
       ELSE /\ expt_config' = config_file
            /\ run_pc' = "L97"
            /\ UNCHANGED <<run_exc, exit_status>>
    /\ UNCHANGED <<entry, argv, member, config_file, driver, run_raises,
                   run_writes, environ_MEMBER, run_calls, run_returned,
                   rundir, fix_lam_path>>
    /\ UNCHANGED <<walk_vars, link_vars>>

\* Line 97 with the default of --member in place of the argument.
SetMemberDefault ==
    /\ run_pc = "L97"
    /\ environ_MEMBER' = "000"
    /\ run_pc' = "L100"
    /\ UNCHANGED <<entry, argv, member, config_file, driver, run_raises,
                   run_writes, expt_config, run_calls, run_returned, rundir,
                   fix_lam_path, run_exc, exit_status>>
    /\ UNCHANGED <<walk_vars, link_vars>>

\* Line 97.
SetMember ==
    /\ run_pc = "L97"
    /\ environ_MEMBER' = member
    /\ run_pc' = "L100"
    /\ UNCHANGED <<entry, argv, member, config_file, driver, run_raises,
                   run_writes, expt_config, run_calls, run_returned, rundir,
                   fix_lam_path, run_exc, exit_status>>
    /\ UNCHANGED <<walk_vars, link_vars>>

\* Lines 100-104.
ConstructDriver ==
    /\ run_pc = "L100"
    /\ IF driver = "ctor_raises"
       THEN Die("UWError", 1)
       ELSE /\ run_pc' = "L105"
            /\ UNCHANGED <<run_exc, exit_status>>
    /\ UNCHANGED <<entry, argv, member, config_file, driver, run_raises,
                   run_writes, environ_MEMBER, expt_config, run_calls,
                   run_returned, rundir, fix_lam_path>>
    /\ UNCHANGED <<walk_vars, link_vars>>

\* Lines 105-106.
ReadRundir ==
    /\ run_pc = "L105"
    /\ IF driver = "no_rundir"
       THEN Die("KeyError: rundir", 1)
       ELSE /\ run_pc' = "L107"
            /\ UNCHANGED <<run_exc, exit_status>>
    /\ UNCHANGED <<entry, argv, member, config_file, driver, run_raises,
                   run_writes, environ_MEMBER, expt_config, run_calls,
                   run_returned, rundir, fix_lam_path>>
    /\ UNCHANGED <<walk_vars, link_vars>>

\* Line 107 with one more attempt after a first run() that raised.
DriverRunRetry ==
    /\ run_pc = "L107"
    /\ run_calls' = run_calls + 1
    /\ rundir' = rundir \cup run_writes
    /\ IF run_raises /\ run_calls = 0
       THEN UNCHANGED <<run_pc, run_exc, exit_status, run_returned>>
       ELSE IF run_raises
       THEN /\ Die("UWError", 1)
            /\ UNCHANGED run_returned
       ELSE /\ run_returned' = TRUE
            /\ run_pc' = "L109"
            /\ UNCHANGED <<run_exc, exit_status>>
    /\ UNCHANGED <<entry, argv, member, config_file, driver, run_raises,
                   run_writes, environ_MEMBER, expt_config, fix_lam_path>>
    /\ UNCHANGED <<walk_vars, link_vars>>

\* Line 107: the driver runs, leaves its files and returns or raises.
DriverRun ==
    /\ run_pc = "L107"
    /\ run_calls' = run_calls + 1
    /\ rundir' = rundir \cup run_writes
    /\ IF run_raises
       THEN /\ Die("UWError", 1)
            /\ UNCHANGED run_returned
       ELSE /\ run_returned' = TRUE
            /\ run_pc' = "L109"
            /\ UNCHANGED <<run_exc, exit_status>>
    /\ UNCHANGED <<entry, argv, member, config_file, driver, run_raises,
                   run_writes, environ_MEMBER, expt_config, fix_lam_path>>
    /\ UNCHANGED <<walk_vars, link_vars>>

\* Line 109 satisfied by either of the two markers.
MarkerMissingEither(dir) == DriverMarker \notin dir /\ TaskMarker \notin dir

\* Line 109: not (rundir / "runscript.fv3.done").is_file()
MarkerMissingInverted(dir) == DriverMarker \in dir

MarkerMissing(dir) == DriverMarker \notin dir

\* Lines 109-111.
CheckMarker ==
    /\ run_pc = "L109"
    /\ IF MarkerMissing(rundir)
       THEN Die("SystemExit(1)", 1)
       ELSE /\ run_pc' = "L114"
            /\ UNCHANGED <<run_exc, exit_status>>
    /\ UNCHANGED <<entry, argv, member, config_file, driver, run_raises,
                   run_writes, environ_MEMBER, expt_config, run_calls,
                   run_returned, rundir, fix_lam_path>>
    /\ UNCHANGED <<walk_vars, link_vars>>

\* Line 114, Path(expt_config["workflow"]["FIXlam"]): KeyError for a key a
\* dictionary lacks, TypeError for a string key into a scalar or a sequence
\* and for a Path made of a dictionary or a sequence.
ResolveFixLam ==
    /\ run_pc = "L114"
    /\ IF ~HasKey(expt_config, "workflow")
       THEN /\ Die("KeyError: workflow", 1)
            /\ UNCHANGED fix_lam_path
       ELSE IF ~IsDict(GetItem(expt_config, "workflow"))
       THEN /\ Die("TypeError", 1)
            /\ UNCHANGED fix_lam_path
       ELSE IF ~HasKey(GetItem(expt_config, "workflow"), "FIXlam")
       THEN /\ Die("KeyError: FIXlam", 1)
            /\ UNCHANGED fix_lam_path
       ELSE IF GetItem(GetItem(expt_config, "workflow"), "FIXlam") # ScalarVal
       THEN /\ Die("TypeError", 1)
            /\ UNCHANGED fix_lam_path
       ELSE /\ fix_lam_path' = "/out"
            /\ run_pc' = "L117"
            /\ UNCHANGED <<run_exc, exit_status>>
    /\ UNCHANGED <<entry, argv, member, config_file, driver, run_raises,
                   run_writes, environ_MEMBER, expt_config, run_calls,
                   run_returned, rundir>>
    /\ UNCHANGED <<walk_vars, link_vars>>

\* Lines 117-120: the call _link_files(...); _link_files is not a name of
\* the module (nor is glob, nor task_rundir of line 123), and Python looks
\* the callee up before it evaluates the arguments.
CallLinkFiles ==
    /\ run_pc = "L117"
    /\ "_link_files" \notin ModuleNames
    /\ Die("NameError: _link_files", 1)
    /\ UNCHANGED <<entry, argv, member, config_file, driver, run_raises,
                   run_writes, environ_MEMBER, expt_config, run_calls,
                   run_returned, rundir, fix_lam_path>>
    /\ UNCHANGED <<walk_vars, link_vars>>

RunNext ==
    \/ UseLogger
    \/ ParseArgs
    \/ CallRunFv3
    \/ LoadConfig
    \/ SetMember
    \/ ConstructDriver
    \/ ReadRundir
    \/ DriverRun
    \/ CheckMarker
    \/ ResolveFixLam
    \/ CallLinkFiles

\* ------------------------------------------------------------------------
\* Specifications
\* ------------------------------------------------------------------------

\* The run: the script executed, or run_fcst called by an importer.  The
\* destination directory of the runs is the one link_files would write.
Init ==
    /\ WalkIdle
    /\ LinkInputs(RunDests, {[p \in LinkProcs |-> <<>>]})
    /\ RunInit

Spec == Init /\ [][RunNext]_vars

InitLink == WalkIdle /\ LinkInit /\ RunIdle

\* link_files called by one caller, once and then once more.
SpecLink == InitLink /\ [][LinkNext]_vars

InitWalk == WalkInit /\ LinkIdle /\ RunIdle

\* _walk_key_path called once.
SpecWalk == InitWalk /\ [][WalkNext]_vars

\* ------------------------------------------------------------------------
\* Claims about the run (checked under Spec)
\* ------------------------------------------------------------------------

Exited == run_pc = "exited"

\* The destination directory as the run found it: nothing calls link_files
\* in a run, so dest_at_call keeps the directory of the initial state.
DestBefore == dest_at_call[Caller]

\* C1: once fv3_driver.run() has returned and the driver's completion
\* marker is not in the run directory, the run goes no further than the
\* check of line 109: it creates no link, does not write its own marker and
\* ends by sys.exit(1), a non-zero exit status.
C1_NoMarkerNoPublish ==
    (run_returned /\ DriverMarker \notin rundir) =>
        /\ run_pc \in {"L109", "exited"}
        /\ dest = DestBefore
        /\ TaskMarker \notin rundir
        /\ Exited => (exit_status # 0 /\ run_exc = "SystemExit(1)")

\* A run whose driver returned leaving output but no marker has ended,
\* with a loadable configuration and an existing destination directory.
C1_Witness ==
    /\ Exited
    /\ run_returned
    /\ DriverMarker \notin rundir
    /\ "data.nc" \in rundir
    /\ expt_config = ScenarioConfig
    /\ dest_exists

\* The arguments are valid, the configuration loads and holds
\* workflow -> FIXlam naming an existing directory, the driver is built,
\* its run() returns and its completion marker is in the run directory.
RunCanSucceed ==
    /\ argv = "ok"
    /\ config_file = ScenarioConfig
    /\ dest_exists
    /\ driver = "ok"
    /\ ~run_raises
    /\ DriverMarker \in rundir \cup run_writes

\* C3, as claimed: a run that can succeed ends with exit status 0, with a
\* link in the FIXlam directory for every *.nc file of the run directory,
\* pointing at it, and with run_fcst_task_complete.txt in the run
\* directory.
C3_SuccessReachesDone ==
    (Exited /\ RunCanSucceed) =>
        /\ exit_status = 0
        /\ TaskMarker \in rundir
        /\ \A n \in (rundir \cup run_writes) \cap FileNames :
              dest[n] = Symlink([dir |-> "/run", name |-> n])

\* ------------------------------------------------------------------------
\* What a key path denotes in a tree, stated apart from the walk
\* ------------------------------------------------------------------------

Prefix(p, n) == SubSeq(p, 1, n)

\* Every prefix of p, p included, leads to a dictionary of t.
RECURSIVE Resolves(_, _)
Resolves(t, p) ==
    \/ p = <<>>
    \/ /\ HasKey(t, p[1])
       /\ IsDict(t.items[p[1]])
       /\ Resolves(t.items[p[1]], Tail(p))

\* t[p[1]][p[2]]...[p[n]], for a path that resolves.
RECURSIVE At(_, _)
At(t, p) == IF p = <<>> THEN t ELSE At(t.items[p[1]], Tail(p))

\* The n-th key of p is the first one that is absent at its position.
MissingAt(t, p, n) ==
    /\ Resolves(t, Prefix(p, n - 1))
    /\ ~HasKey(At(t, Prefix(p, n - 1)), p[n])

\* The n-th key of p is the first one whose value is not a dictionary.
NonTreeAt(t, p, n) ==
    /\ Resolves(t, Prefix(p, n - 1))
    /\ HasKey(At(t, Prefix(p, n - 1)), p[n])
    /\ ~IsDict(At(t, Prefix(p, n - 1)).items[p[n]])

\* "k1 -> k2 -> ... -> kn", built from the left.
RECURSIVE TrailOf(_)
TrailOf(p) ==
    IF Len(p) = 1 THEN p[1]
    ELSE TrailOf(Prefix(p, Len(p) - 1)) \o " -> " \o p[Len(p)]

WalkEnded == walk_pc \in {"returned", "raised", "exited"}

\* ------------------------------------------------------------------------
\* Claims about _walk_key_path (checked under SpecWalk)
\* ------------------------------------------------------------------------

\* C4: for a non-empty key path whose every prefix resolves to a nested
\* tree, the walk does not fail and returns exactly the sub-tree
\* config[k1][k2]...[kn]; repeated keys are permitted.
C4_ReturnsSubtree ==
    (key_path # <<>> /\ Resolves(walk_root, key_path)) =>
        /\ walk_pc \notin {"raised", "exited"}
        /\ walk_exc = ""
        /\ walk_log = <<>>
        /\ walk_pc = "returned" => walk_ret = At(walk_root, key_path)
        /\ (walk_pc = "returned" /\ walk_root = ScenarioConfig
              /\ key_path = <<"workflow">>)
           => walk_ret = Dict([j \in {"FIXlam"} |-> ScalarVal])

\* A walk of three keys, two of them equal, has returned.
C4_Witness ==
    /\ walk_pc = "returned"
    /\ Len(key_path) = 3
    /\ key_path[1] = key_path[2]
    /\ key_path[3] # key_path[1]
    /\ Resolves(walk_root, key_path)

\* C5: when the first key that cannot be followed is absent at its position
\* n, the walk ends with KeyError raised to the caller, has logged the trail
\* of the first n keys joined by " -> ", has looked up no key after the
\* n-th and returns nothing.
C5_MissingKey ==
    \A n \in 1..Len(key_path) :
        (WalkEnded /\ MissingAt(walk_root, key_path, n)) =>
            /\ walk_pc = "raised"
            /\ walk_exc = "KeyError"
            /\ walk_ret = NoneVal
            /\ walk_lookups = Prefix(key_path, n)
            /\ walk_log = <<"Bad config path: " \o TrailOf(Prefix(key_path, n))>>
            /\ (walk_root = ScenarioConfig /\ key_path = <<"workflow", "missing">>)
               => walk_log = <<"Bad config path: workflow -> missing">>

\* The scenario's walk has failed on its second key, with a third key left.
C5_Witness ==
    /\ walk_pc = "raised"
    /\ walk_root = ScenarioConfig
    /\ Len(key_path) = 3
    /\ Prefix(key_path, 2) = <<"workflow", "missing">>

\* C6: when the first key that cannot be followed holds a value that is not
\* a dictionary (at position n), the walk ends there by exiting, has logged
\* the trail of the first n keys and that a dictionary was required, has
\* looked up no later key and returns nothing; the walk never holds and
\* never returns a value that is not a dictionary.
C6_NotATree ==
    /\ walk_pc = "loop" => IsDict(config)
    /\ walk_pc = "returned" => IsDict(walk_ret)
    /\ \A n \in 1..Len(key_path) :
        (WalkEnded /\ NonTreeAt(walk_root, key_path, n)) =>
            /\ walk_pc = "exited"
            /\ walk_exc = "SystemExit(1)"
            /\ walk_ret = NoneVal
            /\ walk_lookups = Prefix(key_path, n)
            /\ walk_log = <<"Value at " \o TrailOf(Prefix(key_path, n))
                              \o " must be a dictionary">>

\* The walk has exited on a sequence found at the second of three keys.
C6_Witness ==
    /\ walk_pc = "exited"
    /\ Len(key_path) = 3
    /\ NonTreeAt(walk_root, key_path, 2)
    /\ At(walk_root, Prefix(key_path, 1)).items[key_path[2]] = SeqVal

\* C7, as claimed: a key path of length zero is rejected, and no tree is
\* returned.
C7_EmptyPathRejected ==
    (WalkEnded /\ key_path = <<>>) =>
        (walk_pc # "returned" /\ walk_ret = NoneVal)

\* C7, amended: a key path of length zero is not rejected; the walk looks
\* up nothing, logs nothing and returns the configuration it was given.
C7_EmptyPathReturnsRoot ==
    (WalkEnded /\ key_path = <<>>) =>
        /\ walk_pc = "returned"
        /\ walk_ret = walk_root
        /\ walk_exc = ""
        /\ walk_lookups = <<>>
        /\ walk_log = <<>>

\* A walk with no keys has ended, on a tree that has entries.
C7_Witness ==
    /\ WalkEnded
    /\ key_path = <<>>
    /\ DOMAIN walk_root.items # {}

\* ------------------------------------------------------------------------
\* Claims about link_files (checked under SpecLink)
\* ------------------------------------------------------------------------

LinkEnded(p) == link_pc[p] \in {"returned", "raised"}

\* The base names of a sequence of source files.
NamesOf(fs) == {Basename(fs[i]) : i \in DOMAIN fs}

\* The last source file of the sequence with base name n.
LastNamed(fs, n) ==
    LET last == CHOOSE i \in DOMAIN fs :
                    /\ Basename(fs[i]) = n
                    /\ \A j \in DOMAIN fs : Basename(fs[j]) = n => j <= i
    IN  fs[last]

DistinctNames(fs) ==
    \A i, j \in DOMAIN fs : Basename(fs[i]) = Basename(fs[j]) => i = j

\* C8, as claimed: for every existing destination directory and every
\* sequence of sources, two calls in a row both succeed, the second leaves
\* the directory as the first left it, and every source has its link
\* pointing at it.
C8_IdempotentAlways ==
    /\ dest_exists => link_pc[Caller] # "raised"
    /\ (link_calls[Caller] = 2 /\ link_pc[Caller] = "returned") =>
          /\ dest = dest_after_first[Caller]
          /\ \A i \in DOMAIN files[Caller] :
                dest[Basename(files[Caller][i])] = Symlink(files[Caller][i])

\* C8, amended: when the first call succeeds, a second call in a row with
\* the same arguments succeeds too and leaves the destination directory as
\* the first call left it, each source's base name being a link to the last
\* source of that base name.
C8_IdempotentAfterSuccess ==
    /\ link_calls[Caller] = 2 => link_pc[Caller] # "raised"
    /\ (link_calls[Caller] = 2 /\ link_pc[Caller] = "returned") =>
          /\ dest = dest_after_first[Caller]
          /\ \A n \in NamesOf(files[Caller]) :
                dest[n] = Symlink(LastNamed(files[Caller], n))
          /\ DistinctNames(files[Caller]) =>
                \A i \in DOMAIN files[Caller] :
                    dest[Basename(files[Caller][i])] = Symlink(files[Caller][i])

\* The second of two calls with two sources of different names has returned.
C8_Witness ==
    /\ link_calls[Caller] = 2
    /\ link_pc[Caller] = "returned"
    /\ Len(files[Caller]) = 2
    /\ DistinctNames(files[Caller])
    /\ dest_at_call[Caller] # dest

\* C9, as claimed: after a successful return every source has a link named
\* after its base name whose target is that source.
C9_EverySourceLinked ==
    link_pc[Caller] = "returned" =>
        \A i \in DOMAIN files[Caller] :
            dest[Basename(files[Caller][i])] = Symlink(files[Caller][i])

\* C9, amended: after a successful return every source's base name is a
\* link in the destination directory whose target is the last source of the
\* sequence with that base name: the source itself when the base names are
\* pairwise distinct, whatever link the name held before.
C9_LastSourceLinked ==
    link_pc[Caller] = "returned" =>
        /\ \A n \in NamesOf(files[Caller]) :
              dest[n] = Symlink(LastNamed(files[Caller], n))
        /\ DistinctNames(files[Caller]) =>
              \A i \in DOMAIN files[Caller] :
                  dest[Basename(files[Caller][i])] = Symlink(files[Caller][i])

\* The first call has returned for two sources of the run directory, of
\* which one name held a link into the removed directory and the other
\* nothing.
C9_Witness ==
    /\ link_pc[Caller] = "returned"
    /\ link_calls[Caller] = 1
    /\ Len(files[Caller]) = 2
    /\ \A i \in 1..2 : files[Caller][i].dir = "/run"
    /\ dest_at_call[Caller][Basename(files[Caller][1])]
           = Symlink([dir |-> "/old", name |-> "grid.nc"])
    /\ dest_at_call[Caller][Basename(files[Caller][2])] = Absent

\* C10: a name of the destination directory that holds a regular file or a
\* directory when link_files is called for a source of that base name is
\* left as it is, and the call fails with FileExistsError.
C10_RealEntryKept ==
    \A i \in DOMAIN files[Caller] :
        LET n == Basename(files[Caller][i])
        IN  dest_at_call[Caller][n] \in {RegularFile, Directory} =>
                /\ dest[n] = dest_at_call[Caller][n]
                /\ LinkEnded(Caller) =>
                      /\ link_pc[Caller] = "raised"
                      /\ link_exc[Caller] = "FileExistsError"

\* The call has failed on its second source, whose name holds a regular
\* file, after replacing the link of the first.
C10_Witness ==
    /\ link_pc[Caller] = "raised"
    /\ Len(files[Caller]) = 2
    /\ link_i[Caller] = 2
    /\ dest_at_call[Caller][Basename(files[Caller][2])] = RegularFile
    /\ dest_at_call[Caller][Basename(files[Caller][1])].kind = "symlink"
    /\ dest_at_call[Caller][Basename(files[Caller][1])] # dest[Basename(files[Caller][1])]

C11_MissingDestState ==
    ~dest_exists =>
        /\ dest = DestBefore
        /\ \A n \in DestNames : dest[n] = Absent
        /\ link_pc[Caller] # "unlink"
        /\ (LinkEnded(Caller) /\ files[Caller] # <<>>) =>
              /\ link_pc[Caller] = "raised"
              /\ link_exc[Caller] = "FileNotFoundError"
              /\ link_i[Caller] = 1
              /\ link_calls[Caller] = 1
        /\ (LinkEnded(Caller) /\ files[Caller] = <<>>) =>
              /\ link_pc[Caller] = "returned"
              /\ link_exc[Caller] = ""

C12_ParseFailureFirst ==
    (entry = "script" /\ argv # "ok") =>
        /\ run_pc \in {"L128", "L130", "exited"}
        /\ Exited => (exit_status = 2 /\ run_exc = "SystemExit(2)")
        /\ environ_MEMBER = ""
        /\ expt_config = NoneVal
        /\ run_calls = 0
        /\ ~run_returned
        /\ dest = DestBefore
        /\ TaskMarker \notin rundir

\* The script has ended on a malformed cycle.
C12_Witness ==
    /\ entry = "script"
    /\ argv = "bad_cycle"
    /\ Exited
    /\ exit_status = 2

\* The states of the orchestration step, in their order; OUTPUTS_PUBLISHED
\* is the state after lines 117-120 and DONE the one after line 123.
PhaseOrder ==
    <<"INIT", "ENV_PREPARED", "DRIVER_INVOKED", "COMPLETION_VERIFIED",
      "OUTPUTS_PUBLISHED", "DONE">>

Rank(ph) == CHOOSE i \in DOMAIN PhaseOrder : PhaseOrder[i] = ph

\* The state a position of the run lies in: INIT until MEMBER is set (lines
\* 93-97), ENV_PREPARED until run() has returned (lines 100-107),
\* DRIVER_INVOKED until the marker is found (line 109), COMPLETION_VERIFIED
\* until the links are made (lines 114-120); NOT_STARTED is the __main__
\* block before it calls the step.
PhaseAt(pc, status) ==
    IF pc \in {"L128", "L130", "L131"} THEN "NOT_STARTED"
    ELSE IF pc \in {"L93", "L97"} THEN "INIT"
    ELSE IF pc \in {"L100", "L105", "L107"} THEN "ENV_PREPARED"
    ELSE IF pc = "L109" THEN "DRIVER_INVOKED"
    ELSE IF pc \in {"L114", "L117"} THEN "COMPLETION_VERIFIED"
    ELSE IF status = 0 THEN "DONE"
    ELSE "FAILED"

Phase == PhaseAt(run_pc, exit_status)

\* A step stays in its state, moves to the next state of the order, or
\* fails.
PhaseStep ==
    LET ph == Phase
        nx == PhaseAt(run_pc', exit_status')
    IN  \/ nx = ph
        \/ ph = "NOT_STARTED" /\ nx \in {"INIT", "FAILED"}
        \/ /\ ph \in {PhaseOrder[i] : i \in 1..5}
           /\ nx = "FAILED" \/ nx = PhaseOrder[Rank(ph) + 1]

C14_MemberState ==
    /\ environ_MEMBER \in {"", member}
    /\ run_pc \in {"L128", "L130", "L131", "L93", "L97"} => environ_MEMBER = ""
    /\ run_pc \in {"L100", "L105", "L107", "L109", "L114", "L117"} =>
          environ_MEMBER = member
    /\ run_calls >= 1 => environ_MEMBER = member

\* C14: MEMBER is set to the member identifier before the driver is
\* constructed, by the one write of line 97; nothing changes it afterwards,
\* and it holds the member identifier when run() is invoked and from then
\* on.
C14_MemberSetOnce ==
    /\ []C14_MemberState
    /\ [][environ_MEMBER' # environ_MEMBER =>
              (run_pc = "L97" /\ run_pc' = "L100")]_vars
    /\ [][environ_MEMBER = member => environ_MEMBER' = member]_vars

\* run() has been invoked for member 001, which MEMBER holds.
C14_Witness ==
    /\ member = "001"
    /\ run_calls = 1
    /\ run_returned
    /\ environ_MEMBER = "001"

\* ------------------------------------------------------------------------
\* Claims about what other processes see of link_files
\* ------------------------------------------------------------------------

\* The names of the caller's sources that held a symbolic link when
\* link_files was called.
ReplacedNames(p) ==
    {n \in NamesOf(files[p]) : dest_at_call[p][n].kind = "symlink"}

\* Between the unlink and the symlink_to of a source of base name n.
Replacing(p, n) ==
    /\ link_pc[p] = "symlink_to"
    /\ Basename(files[p][link_i[p]]) = n

\* C15, as claimed: a name that held a link before the call is at no moment
\* absent from the destination directory.
C15_ReplaceAtomic ==
    \A n \in ReplacedNames(Caller) : dest[n] # Absent

\* C15, amended: a pre-existing link is replaced in two steps, unlink and
\* then symlink_to; the name is absent from the destination directory
\* between the two, and only then; at every other moment it holds the old
\* link or a link to a source of that base name.
C15_ReplaceInTwoSteps ==
    \A n \in ReplacedNames(Caller) :
        /\ dest[n] = Absent <=> Replacing(Caller, n)
        /\ dest[n] \in {Absent, dest_at_call[Caller][n]}
              \cup {Symlink(files[Caller][i]) :
                        i \in {j \in DOMAIN files[Caller] :
                                  Basename(files[Caller][j]) = n}}

\* The old link of the first source's name has been removed and the new one
\* is not made yet.
C15_Witness ==
    /\ link_calls[Caller] = 1
    /\ link_i[Caller] = 1
    /\ Replacing(Caller, "data.nc")
    /\ dest_at_call[Caller]["data.nc"] = Symlink([dir |-> "/old", name |-> "data.nc"])
    /\ dest["data.nc"] = Absent

\* Two callers, each with its own sequence of sources, the base names of the
\* one being none of the other's, and a destination directory that holds
\* nothing, a regular file, a directory or an old link under the names of
\* the sources and nothing or a regular file under the other name.
ConcDests ==
    {ds \in DestStates :
        /\ ds[2]["notes.txt"] \in {Absent, RegularFile}
        /\ \A n \in FileNames :
              ds[2][n].kind = "symlink" => ds[2][n].target.dir = "/old"}

InitConc ==
    /\ WalkIdle
    /\ LinkInputs(ConcDests,
                  {fs \in [LinkProcs -> SeqsUpTo(SrcPaths, MaxFiles)] :
                       NamesOf(fs[1]) \cap NamesOf(fs[2]) = {}})
    /\ RunIdle

\* One call of link_files by each caller, their steps interleaved in any
\* order: every system call of lines 28-31 is a step of its own.
ConcStep(p) ==
    \/ LinkCall(p)
    \/ LinkIsSymlink(p)
    \/ LinkUnlink(p)
    \/ LinkSymlinkTo(p)
    \/ LinkReturn(p)

ConcNext == \E p \in LinkProcs : ConcStep(p)

SpecConc == InitConc /\ [][ConcNext]_vars

\* No source of either caller has a base name that held a regular file or a
\* directory when its call began.
NoRealEntries ==
    \A p \in LinkProcs : \A n \in NamesOf(files[p]) :
        dest_at_call[p][n] \notin {RegularFile, Directory}

BothReturned == \A p \in LinkProcs : link_pc[p] = "returned"

\* C16, as claimed: with disjoint base names and an existing destination
\* directory, neither call fails under any interleaving, and when both have
\* returned every source of both has a link pointing at it.
C16_ConcurrentAlways ==
    dest_exists =>
        /\ \A p \in LinkProcs : link_pc[p] # "raised"
        /\ BothReturned =>
              \A p \in LinkProcs : \A i \in DOMAIN files[p] :
                  dest[Basename(files[p][i])] = Symlink(files[p][i])

\* C16, amended: two concurrent calls for the same existing destination
\* directory whose sources' base names are disjoint between the calls and
\* held no regular file or directory do not conflict: under every
\* interleaving neither fails, and when both have returned every base name
\* of a source is a link to the last source of that name in its call (to the
\* source itself when the names of the call are pairwise distinct), the
\* other names of the directory being as they were.
C16_ConcurrentDisjoint ==
    (dest_exists /\ NoRealEntries) =>
        /\ \A p \in LinkProcs : link_pc[p] # "raised"
        /\ BothReturned =>
              /\ \A p \in LinkProcs : \A n \in NamesOf(files[p]) :
                    dest[n] = Symlink(LastNamed(files[p], n))
              /\ \A p \in LinkProcs : DistinctNames(files[p]) =>
                    \A i \in DOMAIN files[p] :
                        dest[Basename(files[p][i])] = Symlink(files[p][i])
              /\ \A n \in DestNames \ UNION {NamesOf(files[p]) : p \in LinkProcs} :
                    dest[n] = dest_at_call[Caller][n]

\* Both calls have returned, each having replaced an old link; the second
\* call began while the first had removed its old link and had not made the
\* new one yet.
C16_Witness ==
    /\ BothReturned
    /\ \A p \in LinkProcs : Len(files[p]) = 1
    /\ \A p \in LinkProcs :
          dest_at_call[p][Basename(files[p][1])].kind = "symlink"
    /\ dest_at_call[1] # dest_at_call[2]
    /\ dest_at_call[2][Basename(files[1][1])] = Absent

\* ------------------------------------------------------------------------
\* Claims about the two completion markers (checked under Spec)
\* ------------------------------------------------------------------------

\* The contents a run directory may have.
RunDirContents == SUBSET ({DriverMarker, TaskMarker} \cup FileNames)

\* What holds of the markers in every state of a run: they are two names,
\* the test of line 109 gives the same answer with and without the
\* controller's marker in the directory, and the run gets past line 109
\* only with the driver's marker there.
C17_MarkerState ==
    /\ DriverMarker # TaskMarker
    /\ \A dir \in RunDirContents :
          MarkerMissing(dir \cup {TaskMarker}) = MarkerMissing(dir \ {TaskMarker})
    /\ run_pc \in {"L114", "L117"} => DriverMarker \in rundir
    /\ (Exited /\ run_exc = "SystemExit(1)") => DriverMarker \notin rundir

\* C17: the driver's marker and the step's marker are two files; the
\* controller only tests the driver's marker and never creates, changes or
\* removes it (the run directory changes only while run() executes, line
\* 107), it writes no marker but its own, and its own marker does not make
\* the test of line 109 pass.
C17_MarkersApart ==
    /\ []C17_MarkerState
    /\ [][rundir' # rundir => (run_pc = "L107" /\ rundir' = rundir \cup run_writes)]_vars

\* The test of line 109 has passed on the marker that run() left in a run
\* directory that did not hold it before, and the controller has gone on to
\* line 117 without touching it.
C17_Witness ==
    /\ run_pc = "L117"
    /\ run_calls = 1
    /\ DriverMarker \in run_writes
    /\ DriverMarker \in rundir
    /\ TaskMarker \notin rundir
    /\ rundir = run_writes

\* ------------------------------------------------------------------------
\* Claims about a failing call of link_files (checked under SpecLink)
\* ------------------------------------------------------------------------

\* The sources whose link cannot be made: all of them when the destination
\* directory does not exist, else those whose base name held a regular file
\* or a directory when link_files was called.
BadSources(p) ==
    {i \in DOMAIN files[p] :
        \/ ~dest_exists
        \/ dest_at_call[p][Basename(files[p][i])] \in {RegularFile, Directory}}

FirstBad(p) == CHOOSE i \in BadSources(p) : \A j \in BadSources(p) : i <= j

\* The sources before the k-th.
Before(p, k) == SubSeq(files[p], 1, k - 1)

DestDir == "/out"

\* Sources of the run directory and sources that lie in the destination
\* directory itself: the file at DestDir / n is the entry n of dest.
SrcPathsIn == [dir : {"/run", DestDir}, name : FileNames]

InitLinkIn ==
    /\ WalkIdle
    /\ LinkInputs(DestStates,
                  {[p \in LinkProcs |-> IF p = Caller THEN fs ELSE <<>>] :
                       fs \in SeqsUpTo(SrcPathsIn, MaxFiles)})
    /\ RunIdle

\* link_files called by one caller with sources in and out of the
\* destination directory.
SpecLinkIn == InitLinkIn /\ [][LinkNext]_vars

\* The sources of the caller that are entries of the destination directory.
SourcesInDest(p) ==
    {i \in DOMAIN files[p] :
        /\ files[p][i].dir = DestDir
        /\ dest_at_call[p][Basename(files[p][i])] # Absent}

\* The entries of the destination directory under other names than the
\* sources' are as they were, and all of them for no source.
FrameKept(p) ==
    /\ \A n \in DestNames \ NamesOf(files[p]) : dest[n] = dest_at_call[p][n]
    /\ files[p] = <<>> => dest = dest_at_call[p]

====
